---- MODULE Spec2Model ----
(***************************************************************************)
(* A state-machine model of the PeerChat native engine                     *)
(* (engine/src/main/cpp/peer_engine_jni.cpp): the process-wide session     *)
(* g_state and its mutex, the JNI entry points that lock it, the           *)
(* generation pipeline generate_internal with its streaming sink, the      *)
(* StopBuffer stop-sequence matcher, and the lock-free abort flag.         *)
(*                                                                         *)
(* Text is a sequence of characters.  The runtime (llama.cpp) and the JNI  *)
(* environment are external: every call into them that can fail is a       *)
(* nondeterministic choice over its documented results.  Wall-clock        *)
(* figures of EngineMetrics (ttfs_ms, prefill_ms, decode_ms, total_ms,     *)
(* tps, prompt_tps, context_used_pct) are not modelled; the counters and   *)
(* the truncated flag are.                                                 *)
(***************************************************************************)
EXTENDS Integers, Sequences, FiniteSets, TLC

\* ------------------------------------------------------------------ bounds

\* Largest maxTokens argument a caller passes (0 is passed too).
MaxTok == 2
\* Runtime handles that can be live at once (model, context, sampler or
\* embedding context, and the model of each detectModel call).
NumHandles == 5
\* Input texts of one embed call.
MaxTexts == 2
\* Pushes of one StopBuffer exercise.
MaxPush == 3

\* Two host threads calling into the engine; abort() comes from anywhere.
Threads == {"t1", "t2"}
NoThread == "none"

\* Text fragments a sampled token converts to (llama_token_to_piece): the
\* empty fragment, single characters, and a fragment of several characters.
Pieces == { <<>>, <<"a">>, <<"b">>, <<"b", "a">> }

\* A sampled token: an end-of-generation token, or one with a text fragment.
Tokens == { [eog |-> TRUE, piece |-> <<>>] } \cup
          { [eog |-> FALSE, piece |-> p] : p \in Pieces }

\* Stop lists callers configure: none, an empty string only, and two
\* overlapping stop strings.
StopSets == { <<>>,
              << <<>> >>,
              << <<"b">>, <<"a", "b">> >> }

\* The number of tokens the prompt tokenizes to.
PromptCounts == {3}

\* loadModel arguments <<nThreads, nCtx, nGpuLayers, useVulkan>>.
LoadArgs == { <<0, 0, 2, FALSE>>, <<2, 1024, 2, TRUE>> }

\* Results of one emit_chunk delivery: delivered, delivered and the callback
\* threw, or NewStringUTF returned null and nothing was delivered.
SinkOutcomes == { "ok", "threw", "nomem" }

\* What the callers and the runtime feed a behaviour: the maxTokens arguments,
\* the stop lists, the kinds of sink, the tokens the sampler returns and the
\* number of texts of an embed call.  RunInputs exercises one caller with
\* every fragment and stop list; ConcInputs keeps the requests of concurrent
\* callers short.
RunInputs ==
  [maxTokens |-> 0..MaxTok, stops |-> StopSets,
   streams |-> {"cb", "null", "nomethod"}, tokens |-> Tokens,
   texts |-> 0..MaxTexts, loadArgs |-> LoadArgs, sink |-> SinkOutcomes,
   lockedOps |-> {"unload", "embed", "countTokens", "metrics", "stateCapture",
                  "stateClear", "stateSize"},
   bufferOps |-> {"stateRestore", "stateCaptureInto", "stateRestoreFrom"}]
ConcInputs ==
  [maxTokens |-> {MaxTok}, stops |-> { <<>> }, streams |-> {"cb"},
   tokens |-> { [eog |-> TRUE, piece |-> <<>>],
                [eog |-> FALSE, piece |-> <<"a">>] },
   texts |-> {1}, loadArgs |-> { <<2, 1024, 2, TRUE>> },
   sink |-> {"ok", "threw"},
   lockedOps |-> {"unload", "embed", "metrics", "stateClear"},
   bufferOps |-> {"stateRestore"}]
\* FairInputs: the shortest requests, for the check that calls return.
FairInputs ==
  [maxTokens |-> {1}, stops |-> { <<>> }, streams |-> {"cb"},
   tokens |-> { [eog |-> TRUE, piece |-> <<>>],
                [eog |-> FALSE, piece |-> <<"a">>] },
   texts |-> {0}, loadArgs |-> { <<2, 1024, 2, TRUE>> },
   sink |-> {"ok"},
   lockedOps |-> {"unload", "embed", "metrics", "stateClear"},
   bufferOps |-> {"stateRestore"}]

\* ------------------------------------------------------------ StopBuffer

Max(a, b) == IF a >= b THEN a ELSE b

\* StopBuffer::StopBuffer: max_stop_ is the longest stop string's length.
RECURSIVE MaxStop(_)
MaxStop(stops) ==
  IF stops = <<>> THEN 0
  ELSE Max(Len(Head(stops)), MaxStop(Tail(stops)))

\* pending_.compare(pending_.size() - stop.size(), stop.size(), stop) == 0
EndsWith(text, stop) ==
  /\ Len(text) >= Len(stop)
  /\ SubSeq(text, Len(text) - Len(stop) + 1, Len(text)) = stop

\* The loop over stops_: the index of the first non-empty stop string that is
\* a suffix of the buffer, 0 when there is none.
RECURSIVE FirstStopFrom(_, _, _)
FirstStopFrom(text, stops, k) ==
  IF k > Len(stops) THEN 0
  ELSE IF stops[k] # <<>> /\ EndsWith(text, stops[k]) THEN k
  ELSE FirstStopFrom(text, stops, k + 1)

LongestStop(text, stops) ==
  LET c == {k \in 1..Len(stops) : stops[k] # <<>> /\ EndsWith(text, stops[k])}
  IN IF c = {} THEN 0
     ELSE CHOOSE k \in c : \A j \in c : Len(stops[j]) <= Len(stops[k])
FirstStop(text, stops) == FirstStopFrom(text, stops, 1)

\* How much of a buffer of n >= max_stop_ characters a push without a hit
\* emits: all but the last max_stop_ - 1.
EmitLenKeepsLess(n, maxStop) ==
  IF maxStop >= 2 THEN n - (maxStop - 2) ELSE n - (maxStop - 1)
EmitLenKeepsMore(n, maxStop) == n - maxStop
EmitLen(n, maxStop) == n - (maxStop - 1)

\* StopBuffer::push: the emitted text, the buffer afterwards, hit_stop, matched.
PushLosesByte(pending_, stops, piece) ==
  LET p == pending_ \o piece
      L == MaxStop(stops)
      k == FirstStop(p, stops)
  IN IF L = 0 THEN
       [emit |-> p, pending |-> <<>>, hit |-> FALSE, matched |-> <<>>]
     ELSE IF k # 0 THEN
       [emit |-> SubSeq(p, 1, Len(p) - Len(stops[k])), pending |-> <<>>,
        hit |-> TRUE, matched |-> stops[k]]
     ELSE IF Len(p) >= L THEN
       [emit |-> SubSeq(p, 1, EmitLen(Len(p), L) - 1),
        pending |-> SubSeq(p, EmitLen(Len(p), L) + 1, Len(p)),
        hit |-> FALSE, matched |-> <<>>]
     ELSE
       [emit |-> <<>>, pending |-> p, hit |-> FALSE, matched |-> <<>>]

Push(pending_, stops, piece) ==
  LET p == pending_ \o piece
      L == MaxStop(stops)
      k == FirstStop(p, stops)
  IN IF L = 0 THEN
       [emit |-> p, pending |-> <<>>, hit |-> FALSE, matched |-> <<>>]
     ELSE IF k # 0 THEN
       [emit |-> SubSeq(p, 1, Len(p) - Len(stops[k])), pending |-> <<>>,
        hit |-> TRUE, matched |-> stops[k]]
     ELSE IF Len(p) >= L THEN
       [emit |-> SubSeq(p, 1, EmitLen(Len(p), L)),
        pending |-> SubSeq(p, EmitLen(Len(p), L) + 1, Len(p)),
        hit |-> FALSE, matched |-> <<>>]
     ELSE
       [emit |-> <<>>, pending |-> p, hit |-> FALSE, matched |-> <<>>]

\* StopBuffer::flush
Flush(pending_) == [emit |-> pending_, pending |-> <<>>]

\* ------------------------------------------------------------ data types

\* EngineMetrics{}: the counters and the truncated flag.
DefaultMetrics ==
  [prompt_tokens |-> 0, generation_tokens |-> 0, truncated |-> FALSE]

\* GenerationSummary{}
DefaultSummary ==
  [metrics |-> DefaultMetrics, reason |-> "none", stop_sequence |-> <<>>,
   success |-> FALSE]

\* GenerationRequest{} as far as the pipeline reads it, with the caller's raw
\* maxTokens argument.
DefaultRequest == [max_tokens |-> 512, stops |-> <<>>, maxTokens |-> 512]

\* EngineState's configuration defaults.
DefaultConfig ==
  [n_ctx |-> 4096, n_threads |-> 4, n_gpu_layers |-> 0, use_vulkan |-> TRUE]

\* The value an entry point returns to the host, by its JNI type: nothing
\* (void, or not yet known), a jboolean, a jint or byte count, a jstring.
\* embed's array and metrics' document are records of their own.
RetVoid == [void |-> TRUE]
RetBool(b) == [jboolean |-> b]
RetInt(n) == [jint |-> n]
RetString(str) == [jstring |-> str]

\* The stop reasons a completed run may carry.
TerminalReasons == { "eos", "stop_sequence", "max_tokens", "error" }

\* The JNI entry points that take the session lock.
GenOps == { "generate", "generateStream" }
LockOps == GenOps \cup
  { "loadModel", "unload", "embed", "countTokens", "metrics", "stateCapture",
    "stateCaptureInto", "stateRestore", "stateRestoreFrom", "stateClear",
    "stateSize" }

Handles == 1..NumHandles
NullHandle == 0

\* A runtime allocation returns a handle that is not live.
NewHandle(liveSet) ==
  CHOOSE h \in Handles \ liveSet : \A g \in Handles \ liveSet : h <= g

\* The same for the model a detectModel call loads for itself; which of the
\* free handles an allocation returns is the runtime's choice.
NewProbeHandle(liveSet) ==
  CHOOSE h \in Handles \ liveSet : \A g \in Handles \ liveSet : h >= g

VARIABLES
  \* g_state (EngineState)
  mutex, model, ctx, cfg, metrics, stop_reason, stop_sequence, should_abort,
  \* runtime: the context's working memory, the handles not yet released
  kv, live,
  \* each thread's position and the locals of the call it is in
  pc, op, lock, req, stream, summary, iter, stop_buffer, out_text,
  done_guard, sampler, ok, ret,
  \* the host's streaming sink: the onToken calls of each thread's stream
  sink,
  \* history: streams that took the lock and whose terminal call is due
  openStreams,
  \* history: how the run ended; the number of tokens the run had counted
  \* when abort() was first called after the run's clear of the flag (-1: it
  \* was not); whether that clear overwrote a set flag; the fragments of the
  \* tokens the run sampled; the working memory the run found before it
  \* cleared it, kept until the prefill
  path, abortAt, cleared, generated, memBefore,
  \* history: a run committed since the last load/unload/clear/restore call
  sinceRun,
  \* the StopBuffer exercised on its own
  sb,
  \* g_backend_initialized, and how often llama_backend_init has been called
  g_backend_initialized, backend_inits,
  \* the model each detectModel call has loaded for itself (mdl)
  probe

sessVars == <<model, ctx, cfg, metrics, stop_reason, stop_sequence>>
rtVars == <<kv, live>>
genLocals == <<req, stream, summary, iter, stop_buffer, out_text, done_guard,
               sampler, ok>>
backendVars == <<g_backend_initialized, backend_inits>>
histVars == <<path, abortAt, cleared, generated, memBefore>>
vars == <<mutex, sessVars, should_abort, rtVars, pc, op, lock, genLocals, ret, sink,
          openStreams, histVars, sinceRun, sb, backendVars, probe>>

\* ------------------------------------------------------------------ Init

\* The state after static initialisation of g_state (EngineState's member
\* initialisers): nothing loaded, no call in progress.
SessionInit ==
  /\ mutex = NoThread
  /\ model = NullHandle
  /\ ctx = NullHandle
  /\ cfg = DefaultConfig
  /\ metrics = DefaultMetrics
  /\ stop_reason = "none"
  /\ stop_sequence = <<>>
  /\ should_abort = FALSE
  /\ kv = "none"
  /\ live = {}
  /\ pc = [t \in Threads |-> "idle"]
  /\ op = [t \in Threads |-> "none"]
  /\ req = [t \in Threads |-> DefaultRequest]
  /\ stream = [t \in Threads |-> "none"]
  /\ summary = [t \in Threads |-> DefaultSummary]
  /\ iter = [t \in Threads |-> 0]
  /\ stop_buffer = [t \in Threads |-> <<>>]
  /\ out_text = [t \in Threads |-> <<>>]
  /\ done_guard = [t \in Threads |-> FALSE]
  /\ sampler = [t \in Threads |-> NullHandle]
  /\ ok = [t \in Threads |-> FALSE]
  /\ ret = [t \in Threads |-> RetVoid]
  /\ sink = [t \in Threads |-> <<>>]
  /\ openStreams = <<>>
  /\ path = [t \in Threads |-> "none"]
  /\ abortAt = [t \in Threads |-> -1]
  /\ cleared = [t \in Threads |-> FALSE]
  /\ generated = [t \in Threads |-> <<>>]
  /\ memBefore = [t \in Threads |-> "none"]
  /\ lock = [t \in Threads |-> FALSE]
  /\ sinceRun = FALSE
  /\ g_backend_initialized = FALSE
  /\ backend_inits = 0
  /\ probe = [t \in Threads |-> NullHandle]

\* The StopBuffer exercise idle: no stop list chosen yet.
SbIdle ==
  [stops |-> <<>>, pending |-> <<>>, raw |-> <<>>, kept |-> <<>>, out |-> <<>>,
   pushes |-> 0, hits |-> 0, hit |-> FALSE, matched |-> <<>>,
   flushed |-> FALSE, lastEmit |-> <<>>]

Init == SessionInit /\ sb = SbIdle

\* ------------------------------------------------------------ entry points

\* A thread enters a JNI entry point and its locals are constructed.  nextPc
\* is "wait" when the call goes on to lock the session and "out" when it
\* returns retval before that.
BeginCall(t, o, request, cb, nextPc, retval) ==
  /\ pc[t] = "idle"
  /\ pc' = [pc EXCEPT ![t] = nextPc]
  /\ op' = [op EXCEPT ![t] = o]
  /\ req' = [req EXCEPT ![t] = IF nextPc = "wait" THEN request
                                ELSE DefaultRequest]
  /\ stream' = [stream EXCEPT ![t] = cb]
  /\ summary' = [summary EXCEPT ![t] = DefaultSummary]
  /\ iter' = [iter EXCEPT ![t] = 0]
  /\ stop_buffer' = [stop_buffer EXCEPT ![t] = <<>>]
  /\ out_text' = [out_text EXCEPT ![t] = <<>>]
  /\ done_guard' = [done_guard EXCEPT ![t] = cb = "cb" /\ nextPc = "wait"]
  /\ sampler' = [sampler EXCEPT ![t] = NullHandle]
  /\ ok' = [ok EXCEPT ![t] = FALSE]
  /\ ret' = [ret EXCEPT ![t] = retval]
  /\ sink' = [sink EXCEPT ![t] = <<>>]
  /\ UNCHANGED <<mutex, sessVars, should_abort, rtVars, lock, openStreams,
                 histVars, sinceRun, sb, backendVars, probe>>

\* req.max_tokens = std::max(1, maxTokens)
ClampMaxTokens(maxTokens) == Max(1, maxTokens)

\* EngineNative_generate up to its call of generate_internal(req, nullptr,
\* &output, summary).
CallGenerate(t, I) ==
  \E n \in I.maxTokens, stops \in I.stops :
    BeginCall(t, "generate",
              [max_tokens |-> ClampMaxTokens(n), stops |-> stops,
               maxTokens |-> n],
              "none", "wait", RetVoid)

\* EngineNative_generateStream up to its call of generate_internal: a callback
\* without onToken returns at once, a null callback runs without a sink.
CallGenerateStream(t, I) ==
  \E n \in I.maxTokens, stops \in I.stops, cb \in I.streams :
    BeginCall(t, "generateStream",
              [max_tokens |-> ClampMaxTokens(n), stops |-> stops,
               maxTokens |-> n],
              cb, IF cb = "nomethod" THEN "out" ELSE "wait", RetVoid)

\* EngineNative_loadModel before the lock: file_exists(path) fails and the
\* call returns JNI_FALSE, or the call goes on to ensure_backend_init().
CallLoadModel(t) ==
  \E exists \in BOOLEAN :
    BeginCall(t, "loadModel", DefaultRequest, "none",
              IF exists THEN "binit" ELSE "out", RetBool(FALSE))

\* EngineNative_init: ensure_backend_init() and nothing else.
CallInit(t) ==
  BeginCall(t, "init", DefaultRequest, "none", "binit", RetVoid)

\* EngineNative_detectModel: detect_model_metadata returns "{}" for a path
\* that is no regular file, or goes on to ensure_backend_init().
CallDetectModel(t) ==
  \E exists \in BOOLEAN :
    BeginCall(t, "detectModel", DefaultRequest, "none",
              IF exists THEN "binit" ELSE "out", RetString("{}"))

\* Where a call goes once ensure_backend_init() has returned.
AfterBackendInit(o) ==
  CASE o = "loadModel" -> "wait"
    [] o = "detectModel" -> "detect"
    [] OTHER -> "out"

\* ensure_backend_init called without the lock, first half: the test of
\* g_backend_initialized (line 147).  The flag is a plain bool; a thread that
\* reads it while another writes it sees the old or the new value, which are
\* the two orders of this step and BackendInit.
BackendCheck(t) ==
  /\ pc[t] = "binit"
  /\ pc' = [pc EXCEPT ![t] = IF g_backend_initialized
                             THEN AfterBackendInit(op[t]) ELSE "binit2"]
  /\ UNCHANGED <<mutex, sessVars, should_abort, rtVars, op, lock, genLocals,
                 ret, sink, openStreams, histVars, sinceRun, sb, backendVars, probe>>

\* ensure_backend_init, second half: llama_backend_init() and the store of
\* the flag (lines 148-149).
BackendInit(t) ==
  /\ pc[t] = "binit2"
  /\ backend_inits' = backend_inits + 1
  /\ g_backend_initialized' = TRUE
  /\ pc' = [pc EXCEPT ![t] = AfterBackendInit(op[t])]
  /\ UNCHANGED <<mutex, sessVars, should_abort, rtVars, op, lock, genLocals,
                 ret, sink, openStreams, histVars, sinceRun, sb, probe>>

\* ensure_backend_init called by the holder of the lock (generate_internal,
\* embed), where a model is loaded and the flag therefore already set.
EnsureBackendInit ==
  /\ backend_inits' = IF g_backend_initialized THEN backend_inits
                      ELSE backend_inits + 1
  /\ g_backend_initialized' = TRUE

\* detect_model_metadata after ensure_backend_init: a model of its own is
\* loaded, or fails to load and the call returns "{}"; the session is not
\* touched and no lock is taken.
DetectModel(t) ==
  /\ pc[t] = "detect"
  /\ \E loaded \in BOOLEAN :
       IF loaded
       THEN /\ pc' = [pc EXCEPT ![t] = "detect2"]
            /\ probe' = [probe EXCEPT ![t] = NewProbeHandle(live)]
            /\ live' = live \cup {NewProbeHandle(live)}
            /\ UNCHANGED ret
       ELSE /\ pc' = [pc EXCEPT ![t] = "out"]
            /\ ret' = [ret EXCEPT ![t] = RetString("{}")]
            /\ UNCHANGED <<probe, live>>
  /\ UNCHANGED <<mutex, sessVars, should_abort, kv, op, lock, genLocals, sink,
                 openStreams, histVars, sinceRun, sb, backendVars>>

\* detect_model_metadata, the rest: the metadata is read, the model is freed
\* (llama_model_free(mdl)) and the JSON document returned.
DetectModelFree(t) ==
  /\ pc[t] = "detect2"
  /\ pc' = [pc EXCEPT ![t] = "out"]
  /\ live' = live \ {probe[t]}
  /\ probe' = [probe EXCEPT ![t] = NullHandle]
  /\ ret' = [ret EXCEPT ![t] = RetString("json")]
  /\ UNCHANGED <<mutex, sessVars, should_abort, kv, op, lock, genLocals, sink,
                 openStreams, histVars, sinceRun, sb, backendVars>>

\* stateRestore (null array), stateCaptureInto (null buffer, no address,
\* capacity <= 0) and stateRestoreFrom (null buffer, length <= 0, no address)
\* return before the lock when their argument is unusable.
CallWithBuffer(t, I) ==
  \E o \in I.bufferOps, usable \in BOOLEAN :
    BeginCall(t, o, DefaultRequest, "none",
              IF usable THEN "wait" ELSE "out",
              IF o = "stateCaptureInto" THEN RetInt(0) ELSE RetBool(FALSE))

\* The entry points whose first statement takes the lock.
CallLocked(t, I) ==
  \E o \in I.lockedOps :
    BeginCall(t, o, DefaultRequest, "none", "wait", RetVoid)

\* std::lock_guard<std::mutex> lock(g_state.mutex): blocks until it is free.
MutexAlwaysFree == TRUE
MutexFree == mutex = NoThread

Lock(t) ==
  /\ pc[t] = "wait"
  /\ MutexFree
  /\ mutex' = t
  /\ lock' = [lock EXCEPT ![t] = TRUE]
  /\ pc' = [pc EXCEPT ![t] = "in"]
  /\ openStreams' = IF stream[t] = "cb"
                    THEN Append(openStreams, t) ELSE openStreams
  /\ UNCHANGED <<sessVars, should_abort, rtVars, op, genLocals, ret, sink,
                 histVars, sinceRun, sb, backendVars, probe>>

\* The body of a locked entry point other than generate reaches its return
\* statement with the value retval; the lock_guard is still in scope.
Leave(t, retval) ==
  /\ pc' = [pc EXCEPT ![t] = "out"]
  /\ ret' = [ret EXCEPT ![t] = retval]
  /\ UNCHANGED <<mutex, op, lock, genLocals, sink, openStreams, histVars,
                 sb, backendVars, probe>>

\* An entry point returns to the host: the lock_guard, if the call holds one,
\* releases the mutex, and the call's locals are gone.
MutexKeptAtReturn(t) == mutex
MutexAtReturn(t) == IF lock[t] THEN NoThread ELSE mutex

Return(t) ==
  /\ pc[t] = "out"
  /\ mutex' = MutexAtReturn(t)
  /\ lock' = [lock EXCEPT ![t] = FALSE]
  /\ pc' = [pc EXCEPT ![t] = "idle"]
  /\ op' = [op EXCEPT ![t] = "none"]
  /\ ret' = [ret EXCEPT ![t] = RetVoid]
  /\ UNCHANGED <<sessVars, should_abort, rtVars, genLocals, sink,
                 openStreams, histVars, sinceRun, sb, backendVars, probe>>

\* reset_metrics_locked
ResetMetricsLocked ==
  /\ metrics' = DefaultMetrics
  /\ stop_reason' = "none"
  /\ stop_sequence' = <<>>
  /\ should_abort' = FALSE

\* unload_locked: what is live once the context and the model are released.
LiveAfterUnloadLeaksModel == live \ {ctx}
LiveAfterUnload == live \ {ctx, model}

\* EngineNative_unload
Unload(t) ==
  /\ pc[t] = "in" /\ op[t] = "unload"
  /\ ctx' = NullHandle
  /\ model' = NullHandle
  /\ live' = LiveAfterUnload
  /\ kv' = "none"
  /\ ResetMetricsLocked
  /\ sinceRun' = FALSE
  /\ UNCHANGED cfg
  /\ Leave(t, RetVoid)

\* The configuration loadModel records for <<nThreads, nCtx, nGpuLayers,
\* useVulkan>>.
LoadedConfig(a) ==
  [n_ctx |-> Max(512, a[2]), n_threads |-> Max(1, a[1]),
   n_gpu_layers |-> IF a[4] THEN a[3] ELSE 0, use_vulkan |-> a[4]]

\* The session's handles when loadModel returns: both were nulled by
\* unload_locked and are assigned together once both objects exist.
HandlesModelFirst(outcome, m, c) ==
  [model |-> IF outcome # "model_fail" THEN m ELSE NullHandle,
   ctx |-> IF outcome = "ok" THEN c ELSE NullHandle]
HandlesAfterLoad(outcome, m, c) ==
  IF outcome = "ok" THEN [model |-> m, ctx |-> c]
  ELSE [model |-> NullHandle, ctx |-> NullHandle]

\* EngineNative_loadModel under the lock: unload_locked(), then the model and
\* the context are constructed; either construction may fail.
LoadModel(t, I) ==
  /\ pc[t] = "in" /\ op[t] = "loadModel"
  /\ \E a \in I.loadArgs, outcome \in {"model_fail", "ctx_fail", "ok"} :
       LET m == NewHandle(LiveAfterUnload)
           c == NewHandle(LiveAfterUnload \cup {m})
       IN /\ ResetMetricsLocked
          /\ model' = HandlesAfterLoad(outcome, m, c).model
          /\ ctx' = HandlesAfterLoad(outcome, m, c).ctx
          /\ IF outcome = "ok"
             THEN /\ live' = LiveAfterUnload \cup {m, c}
                  /\ kv' = "zeroed"
                  /\ cfg' = LoadedConfig(a)
             ELSE /\ live' = LiveAfterUnload
                  /\ kv' = "none"
                  /\ UNCHANGED cfg
          /\ sinceRun' = FALSE
          /\ Leave(t, RetBool(outcome = "ok"))

\* What one input text of embed contributes: an empty vector when it fails to
\* tokenize, has no tokens, fails to encode or the runtime has no embedding.
EmbedOutcomes == { "tokfail", "notokens", "encfail", "noemb", "ok" }
EmbedEntry(outcome) == IF outcome = "ok" THEN "vec" ELSE "empty"

\* The vector of embeddings embed builds: one entry per text, in order.
EmbedResultSkipsFailed(outs) ==
  SelectSeq([k \in 1..Len(outs) |-> EmbedEntry(outs[k])],
            LAMBDA e : e # "empty")
EmbedResult(outs) == [k \in 1..Len(outs) |-> EmbedEntry(outs[k])]

\* llama_free(ectx): the handles live once embed has released its context.
LiveEmbedLeaks(liveSet, ectx) == liveSet \cup {ectx}
LiveAfterEmbed(liveSet, ectx) == (liveSet \cup {ectx}) \ {ectx}

\* EngineNative_embed: a temporary context on the session's model, one entry
\* per text, released before returning.  The value returned is the array of
\* entries; texts and how (what happened to each text) are kept beside it.
Embed(t, I) ==
  /\ pc[t] = "in" /\ op[t] = "embed"
  /\ pc' = [pc EXCEPT ![t] = "out"]
  /\ \E n \in I.texts, created \in BOOLEAN :
       IF ctx = NullHandle \/ model = NullHandle \/ ~created
       THEN /\ ret' = [ret EXCEPT ![t] =
                         [texts |-> n, made |-> FALSE, how |-> <<>>,
                          entries |-> <<>>]]
            /\ IF ctx = NullHandle \/ model = NullHandle
               THEN UNCHANGED backendVars
               ELSE EnsureBackendInit
            /\ UNCHANGED live
       ELSE \E outs \in [1..n -> EmbedOutcomes] :
              /\ ret' = [ret EXCEPT ![t] =
                           [texts |-> n, made |-> TRUE, how |-> outs,
                            entries |-> EmbedResult(outs)]]
              /\ EnsureBackendInit
              /\ live' = LiveAfterEmbed(live, NewHandle(live))
  /\ UNCHANGED <<mutex, sessVars, should_abort, kv, op, lock, genLocals, sink,
                 openStreams, histVars, sinceRun, sb, probe>>

\* llama_state_get_size as far as the model tells working memories apart.
StateSizeOf(mem) ==
  CASE mem = "none" -> 0
    [] mem = "zeroed" -> 1
    [] mem = "cleared" -> 1
    [] OTHER -> 2

\* build_metrics_json_locked: the session's configuration and last-run state.
MetricsJson ==
  [cfg |-> cfg, metrics |-> metrics, stop_reason |-> stop_reason,
   stop_sequence |-> stop_sequence]

\* countTokens, metrics, stateCapture, stateCaptureInto and stateSize read the
\* session under the lock and change nothing.
ReadOnly(t) ==
  /\ pc[t] = "in"
  /\ op[t] \in {"countTokens", "metrics", "stateCapture", "stateCaptureInto",
                "stateSize"}
  /\ \E runtimeOk \in BOOLEAN :
       Leave(t,
         CASE op[t] = "countTokens" ->
                RetInt(IF model = NullHandle \/ ~runtimeOk THEN 0 ELSE 1)
           [] op[t] = "metrics" -> MetricsJson
           [] op[t] = "stateSize" ->
                RetInt(IF ctx = NullHandle THEN 0 ELSE StateSizeOf(kv))
           [] OTHER ->
                RetInt(IF ctx = NullHandle \/ ~runtimeOk THEN 0
                       ELSE StateSizeOf(kv)))
  /\ UNCHANGED <<sessVars, should_abort, rtVars, sinceRun>>

\* llama_memory_clear(mem, data): the working memory with its cells dropped,
\* and with its data buffers zeroed when data is set; a memory that holds
\* nothing stays as it is.
ClearMemoryKeeps(mem, data) == mem
ClearMemory(mem, data) ==
  IF data \/ mem = "zeroed" THEN "zeroed" ELSE "cleared"

\* const bool ok = read > 0
RestoreOkAlways(consumed) == TRUE
RestoreOk(consumed) == consumed

\* EngineNative_stateRestore / stateRestoreFrom under the lock: the working
\* memory is cleared (cells only), then the runtime reads the bytes and
\* reports how many it consumed.
StateRestore(t) ==
  /\ pc[t] = "in" /\ op[t] \in {"stateRestore", "stateRestoreFrom"}
  /\ \E lenOk \in BOOLEAN, consumed \in BOOLEAN :
       IF ctx = NullHandle \/ (op[t] = "stateRestore" /\ ~lenOk)
       THEN /\ UNCHANGED <<metrics, stop_reason, stop_sequence, should_abort,
                           kv, sinceRun>>
            /\ Leave(t, RetBool(FALSE))
       ELSE /\ kv' = IF consumed THEN "restored" ELSE ClearMemory(kv, FALSE)
            /\ IF RestoreOk(consumed)
               THEN ResetMetricsLocked /\ sinceRun' = FALSE
               ELSE UNCHANGED <<metrics, stop_reason, stop_sequence,
                                should_abort, sinceRun>>
            /\ Leave(t, RetBool(RestoreOk(consumed)))
  /\ UNCHANGED <<model, ctx, cfg, live>>

\* EngineNative_stateClear
StateClear(t) ==
  /\ pc[t] = "in" /\ op[t] = "stateClear"
  /\ \E clearData \in BOOLEAN :
       IF ctx = NullHandle
       THEN UNCHANGED <<metrics, stop_reason, stop_sequence, should_abort, kv>>
       ELSE /\ kv' = ClearMemory(kv, clearData)
            /\ ResetMetricsLocked
  /\ sinceRun' = FALSE
  /\ UNCHANGED <<model, ctx, cfg, live>>
  /\ Leave(t, RetVoid)

\* EngineNative_abort: a store to the atomic flag, no lock.
AbortTakesLock ==
  /\ MutexFree
  /\ should_abort' = TRUE
  /\ abortAt' = [t \in Threads |->
                   IF pc[t] \in {"prefill", "loop", "body"} /\ abortAt[t] = -1
                   THEN summary[t].metrics.generation_tokens ELSE abortAt[t]]
  /\ UNCHANGED <<mutex, sessVars, rtVars, pc, op, lock, genLocals, ret, sink,
                 openStreams, path, cleared, generated, memBefore, sinceRun,
                 sb, backendVars, probe>>
Abort ==
  /\ should_abort' = TRUE
  /\ abortAt' = [t \in Threads |->
                   IF pc[t] \in {"prefill", "loop", "body"} /\ abortAt[t] = -1
                   THEN summary[t].metrics.generation_tokens ELSE abortAt[t]]
  /\ UNCHANGED <<mutex, sessVars, rtVars, pc, op, lock, genLocals, ret, sink,
                 openStreams, path, cleared, generated, memBefore, sinceRun,
                 sb, backendVars, probe>>

\* ------------------------------------------------------- generate_internal

\* emit_chunk(stream, text, done): whether it reports success and the onToken
\* calls the sink receives.  Without a stream, and for an empty chunk that is
\* not the terminal one, nothing is delivered and the call succeeds.
EmitChunk(hasStream, text, done, outcome) ==
  IF ~hasStream THEN [ok |-> TRUE, calls |-> <<>>]
  ELSE IF ~done /\ text = <<>> THEN [ok |-> TRUE, calls |-> <<>>]
  ELSE IF outcome = "nomem" THEN [ok |-> FALSE, calls |-> <<>>]
  ELSE [ok |-> outcome = "ok", calls |-> << [text |-> text, done |-> done] >>]

HasStream(t) == stream[t] = "cb"
HasOutText(t) == op[t] = "generate"

\* The results a delivery by thread t can have: without a stream emit_chunk
\* returns true before it touches the JNI environment.
SinkChoices(t, I) == IF HasStream(t) THEN I.sink ELSE {"ok"}

\* A generation call leaves the locked part of generate_internal towards its
\* return: the summary, the result and the history of how the run ended.
GenLeave(t, s, result, how, nextPc) ==
  /\ summary' = [summary EXCEPT ![t] = s]
  /\ ok' = [ok EXCEPT ![t] = result]
  /\ path' = [path EXCEPT ![t] = how]
  /\ pc' = [pc EXCEPT ![t] = nextPc]

\* The store of line 360: the flag a new generation starts with.
AbortFlagKept == should_abort
AbortFlagAtStart == FALSE

\* generate_internal after the lock is taken: the summary is reset; without a
\* live model and context the run fails; otherwise the abort flag is cleared
\* and the context's working memory is cleared, data included.
GenStart(t) ==
  /\ pc[t] = "in" /\ op[t] \in GenOps
  /\ IF ctx = NullHandle \/ model = NullHandle
     THEN /\ GenLeave(t, [DefaultSummary EXCEPT !.reason = "error"], FALSE,
                      "nomodel", "ret")
          /\ UNCHANGED <<should_abort, kv, abortAt, cleared, memBefore,
                         backendVars, probe>>
     ELSE /\ GenLeave(t, DefaultSummary, FALSE, "none", "prefill")
          /\ EnsureBackendInit
          /\ should_abort' = AbortFlagAtStart
          /\ abortAt' = [abortAt EXCEPT ![t] = -1]
          /\ cleared' = [cleared EXCEPT ![t] = should_abort]
          /\ memBefore' = [memBefore EXCEPT ![t] = kv]
          /\ kv' = ClearMemory(kv, TRUE)
  /\ UNCHANGED <<mutex, sessVars, live, op, lock, req, stream, iter,
                 stop_buffer, out_text, done_guard, sampler, ret, sink,
                 openStreams, generated, sinceRun, sb, probe>>

\* From the vocabulary lookup to the sampler chain: any of the four runtime
\* steps may fail and end the run with reason error; otherwise the prompt
\* count is recorded and the decode loop starts with an empty StopBuffer.
GenPrefill(t) ==
  /\ pc[t] = "prefill"
  /\ \E outcome \in {"vocab", "tokenize", "prefill", "sampler", "ok"},
        n \in PromptCounts :
       IF outcome # "ok"
       THEN /\ GenLeave(t, [summary[t] EXCEPT !.reason = "error"], FALSE,
                        outcome, "ret")
            /\ kv' = IF outcome \in {"prefill", "sampler"} THEN "used" ELSE kv
            /\ UNCHANGED <<live, sampler, iter, stop_buffer>>
       ELSE /\ GenLeave(t, [summary[t] EXCEPT !.metrics.prompt_tokens = n],
                        FALSE, "none", "loop")
            /\ kv' = "used"
            /\ sampler' = [sampler EXCEPT ![t] = NewHandle(live)]
            /\ live' = live \cup {NewHandle(live)}
            /\ iter' = [iter EXCEPT ![t] = 0]
            /\ stop_buffer' = [stop_buffer EXCEPT ![t] = <<>>]
  /\ memBefore' = [memBefore EXCEPT ![t] = "none"]
  /\ UNCHANGED <<mutex, sessVars, should_abort, op, lock, req, stream,
                 out_text, done_guard, ret, sink, openStreams, abortAt,
                 cleared, generated, sinceRun, sb, backendVars, probe>>

\* The loop condition of line 428.
LoopGuardOffByOne(t) == iter[t] <= req[t].max_tokens
LoopGuard(t) == iter[t] < req[t].max_tokens

\* The cancellation check of line 430.
AbortIgnored == FALSE
AbortRequested == should_abort

\* The head of one decode-loop iteration: the loop condition, then the check
\* of the abort flag.
LoopCheck(t) ==
  /\ pc[t] = "loop"
  /\ IF ~LoopGuard(t)
     THEN GenLeave(t, summary[t], FALSE, "budget", "post")
     ELSE IF AbortRequested
     THEN GenLeave(t, [summary[t] EXCEPT !.reason = "error",
                                         !.metrics.truncated = TRUE],
                   FALSE, "cancel", "post")
     ELSE GenLeave(t, summary[t], FALSE, "none", "body")
  /\ UNCHANGED <<mutex, sessVars, should_abort, rtVars, op, lock, req,
                 stream, iter, stop_buffer, out_text, done_guard, sampler,
                 ret, sink, openStreams, abortAt, cleared, generated,
                 memBefore, sinceRun, sb, backendVars, probe>>

\* summary.stop_sequence = matched_stop
MatchedStopDropped(r) == <<>>
MatchedStop(r) == r.matched

\* The rest of one iteration: a token is sampled; an end-of-generation token
\* ends the run; otherwise its fragment goes through the StopBuffer, what the
\* buffer releases is delivered, the token is counted and decoded, and a stop
\* hit ends the run.
GenBody(t, I) ==
  /\ pc[t] = "body"
  /\ \E tok \in I.tokens, so \in SinkChoices(t, I), decoded \in BOOLEAN :
       IF tok.eog
       THEN /\ GenLeave(t, [summary[t] EXCEPT !.reason = "eos"], FALSE,
                        "eos", "post")
            /\ UNCHANGED <<kv, iter, stop_buffer, out_text, sink, generated>>
       ELSE
         LET r == Push(stop_buffer[t], req[t].stops, tok.piece)
             e == IF r.emit # <<>>
                  THEN EmitChunk(HasStream(t), r.emit, FALSE, so)
                  ELSE [ok |-> TRUE, calls |-> <<>>]
             counted == [summary[t] EXCEPT !.metrics.generation_tokens = @ + 1]
         IN /\ stop_buffer' = [stop_buffer EXCEPT ![t] = r.pending]
            /\ generated' = [generated EXCEPT ![t] = @ \o tok.piece]
            /\ sink' = [sink EXCEPT ![t] = @ \o e.calls]
            /\ IF ~e.ok
               THEN /\ GenLeave(t, [summary[t] EXCEPT !.reason = "error"],
                                FALSE, "sinkfail", "post")
                    /\ UNCHANGED <<kv, iter, out_text>>
               ELSE /\ out_text' = [out_text EXCEPT ![t] =
                                      IF HasOutText(t) THEN @ \o r.emit ELSE @]
                    /\ kv' = "used"
                    /\ IF ~decoded
                       THEN /\ GenLeave(t, [counted EXCEPT
                                              !.reason = "error",
                                              !.metrics.truncated = TRUE],
                                        FALSE, "decodefail", "post")
                            /\ UNCHANGED iter
                       ELSE IF r.hit
                       THEN /\ GenLeave(t, [counted EXCEPT
                                              !.reason = "stop_sequence",
                                              !.stop_sequence =
                                                MatchedStop(r)],
                                        FALSE, "stop", "post")
                            /\ UNCHANGED iter
                       ELSE /\ GenLeave(t, counted, FALSE, "none", "loop")
                            /\ iter' = [iter EXCEPT ![t] = @ + 1]
  /\ UNCHANGED <<mutex, sessVars, should_abort, live, op, lock, req, stream,
                 done_guard, sampler, ret, openStreams, abortAt, cleared,
                 memBefore, sinceRun, sb, backendVars, probe>>

\* Lines 487-491: a loop that ended with no reason set ran out of budget.
ReasonAfterLoopStrict(s, maxTokens) ==
  IF s.reason = "none"
  THEN IF s.metrics.generation_tokens > maxTokens THEN "max_tokens" ELSE "none"
  ELSE s.reason
ReasonAfterLoop(s, maxTokens) ==
  IF s.reason = "none"
  THEN IF s.metrics.generation_tokens >= maxTokens THEN "max_tokens" ELSE "none"
  ELSE s.reason

\* if (!tail.empty() && summary.reason != StopReason::Error)
DeliverTailAlways(tail, reason) == tail # <<>>
DeliverTail(tail, reason) == tail # <<>> /\ reason # "error"

\* After the loop: the sampler is released, the reason and the truncated flag
\* are settled, the StopBuffer is flushed and its tail delivered unless the
\* run failed, and a successful stream gets its terminal call here, which
\* dismisses the guard.
GenPost(t, I) ==
  /\ pc[t] = "post"
  /\ \E so \in SinkChoices(t, I), soDone \in SinkChoices(t, I) :
       LET reason1 == ReasonAfterLoop(summary[t], req[t].max_tokens)
           trunc == summary[t].metrics.truncated \/ reason1 = "max_tokens"
           tail == Flush(stop_buffer[t]).emit
           deliver == DeliverTail(tail, reason1)
           e == IF deliver THEN EmitChunk(HasStream(t), tail, FALSE, so)
                ELSE [ok |-> TRUE, calls |-> <<>>]
           reason2 == IF deliver /\ ~e.ok THEN "error" ELSE reason1
           success == reason2 # "error"
           d == IF success /\ HasStream(t)
                THEN EmitChunk(TRUE, <<>>, TRUE, soDone)
                ELSE [ok |-> TRUE, calls |-> <<>>]
       IN /\ GenLeave(t, [summary[t] EXCEPT !.reason = reason2,
                                            !.metrics.truncated = trunc,
                                            !.success = success],
                      success,
                      IF deliver /\ ~e.ok THEN "tailfail"
                      ELSE IF path[t] = "budget" THEN "max" ELSE path[t],
                      "ret")
          /\ stop_buffer' = [stop_buffer EXCEPT ![t] = Flush(@).pending]
          /\ out_text' = [out_text EXCEPT ![t] =
                            IF deliver /\ e.ok /\ HasOutText(t)
                            THEN @ \o tail ELSE @]
          /\ sink' = [sink EXCEPT ![t] = @ \o e.calls \o d.calls]
          /\ done_guard' = [done_guard EXCEPT ![t] =
                              IF success /\ HasStream(t) THEN FALSE ELSE @]
          /\ openStreams' = IF d.calls # <<>>
                            THEN SelectSeq(openStreams, LAMBDA u : u # t)
                            ELSE openStreams
  /\ live' = live \ {sampler[t]}
  /\ sampler' = [sampler EXCEPT ![t] = NullHandle]
  /\ UNCHANGED <<mutex, sessVars, should_abort, kv, op, lock, req, stream,
                 iter, ret, abortAt, cleared, generated, memBefore, sinceRun,
                 sb, backendVars, probe>>

\* ~SummaryCommit: what the session's last-run state becomes.
CommittedWithoutMetrics(s) ==
  [metrics |-> metrics, stop_reason |-> s.reason,
   stop_sequence |-> s.stop_sequence]
Committed(s) ==
  [metrics |-> s.metrics, stop_reason |-> s.reason,
   stop_sequence |-> s.stop_sequence]

\* The return of generate_internal, first half: ~SummaryCommit copies the
\* summary into the session, then the lock_guard releases the mutex.  The
\* summary, the request and the loop's locals are not read again.  Of the
\* history only whether a chunk delivery failed is kept, until the guard has
\* run.
GenRet(t) ==
  /\ pc[t] = "ret"
  /\ metrics' = Committed(summary[t]).metrics
  /\ stop_reason' = Committed(summary[t]).stop_reason
  /\ stop_sequence' = Committed(summary[t]).stop_sequence
  /\ sinceRun' = TRUE
  /\ mutex' = NoThread
  /\ lock' = [lock EXCEPT ![t] = FALSE]
  /\ pc' = [pc EXCEPT ![t] = "guard"]
  /\ req' = [req EXCEPT ![t] = DefaultRequest]
  /\ summary' = [summary EXCEPT ![t] = DefaultSummary]
  /\ iter' = [iter EXCEPT ![t] = 0]
  /\ path' = [path EXCEPT ![t] = IF path[t] \in {"sinkfail", "tailfail"}
                                 THEN "chunkfail" ELSE "none"]
  /\ abortAt' = [abortAt EXCEPT ![t] = -1]
  /\ cleared' = [cleared EXCEPT ![t] = FALSE]
  /\ generated' = [generated EXCEPT ![t] = <<>>]
  /\ UNCHANGED <<model, ctx, cfg, memBefore, should_abort, rtVars, op, stream,
                 stop_buffer, out_text, done_guard, sampler, ok, ret, sink,
                 openStreams, sb, backendVars, probe>>

\* The value EngineNative_generate returns once generate_internal has
\* returned ok: the accumulated text, or the empty string when the run failed.
GenerateResultKeepsText(t) == out_text[t]
GenerateResult(t) == IF ok[t] THEN out_text[t] ELSE <<>>

\* The return of generate_internal, second half: ~StreamDoneGuard, declared
\* before the lock_guard and so destroyed after it, delivers the terminal
\* call unless it was dismissed; then the entry point returns (generate:
\* GenerateResult) and the call's locals are gone.
GenGuard(t, I) ==
  /\ pc[t] = "guard"
  /\ \E so \in SinkChoices(t, I) :
       LET d == IF done_guard[t] THEN EmitChunk(HasStream(t), <<>>, TRUE, so)
                ELSE [ok |-> TRUE, calls |-> <<>>]
       IN  /\ sink' = [sink EXCEPT ![t] = @ \o d.calls]
  /\ openStreams' = SelectSeq(openStreams, LAMBDA u : u # t)
  /\ done_guard' = [done_guard EXCEPT ![t] = FALSE]
  /\ out_text' = [out_text EXCEPT ![t] = <<>>]
  /\ ok' = [ok EXCEPT ![t] = FALSE]
  /\ op' = [op EXCEPT ![t] = "none"]
  /\ pc' = [pc EXCEPT ![t] = "idle"]
  /\ path' = [path EXCEPT ![t] = "none"]
  /\ UNCHANGED <<mutex, sessVars, should_abort, rtVars, lock, req, stream,
                 summary, iter, stop_buffer, sampler, ret, abortAt, cleared,
                 generated, memBefore, sinceRun, sb, backendVars, probe>>

\* -------------------------------------------------------------------- Next

\* The host calls an entry point on thread t.
Call(t, I) ==
  \/ CallGenerate(t, I)
  \/ CallGenerateStream(t, I)
  \/ CallLoadModel(t)
  \/ CallInit(t)
  \/ CallDetectModel(t)
  \/ CallWithBuffer(t, I)
  \/ CallLocked(t, I)

\* The call thread t is in takes its next step; none of these waits for
\* another thread.
Proceed(t, I) ==
  \/ BackendCheck(t)
  \/ BackendInit(t)
  \/ DetectModel(t)
  \/ DetectModelFree(t)
  \/ Unload(t)
  \/ LoadModel(t, I)
  \/ Embed(t, I)
  \/ ReadOnly(t)
  \/ StateRestore(t)
  \/ StateClear(t)
  \/ GenStart(t)
  \/ GenPrefill(t)
  \/ LoopCheck(t)
  \/ GenBody(t, I)
  \/ GenPost(t, I)
  \/ GenRet(t)
  \/ GenGuard(t, I)
  \/ Return(t)

\* One step of thread t with the inputs I.
Step(t, I) == Call(t, I) \/ Lock(t) \/ Proceed(t, I)

\* Concurrent callers and abort().
Next == (\E t \in Threads : Step(t, ConcInputs)) \/ Abort

Spec == Init /\ [][Next]_vars

\* Concurrent callers under fair scheduling: a call that can take a step
\* eventually takes it (every runtime call and sink callback returns), and a
\* thread that finds the mutex free again and again eventually gets it.  The
\* host is not obliged to make calls.
NextFair == (\E t \in Threads : Step(t, FairInputs)) \/ Abort

Fairness ==
  \A t \in Threads :
    WF_pc(Proceed(t, FairInputs)) /\ SF_pc(Lock(t))

SpecFair == Init /\ [][NextFair]_vars /\ Fairness

\* One caller, every input, and abort() from another thread.
NextRun == Step("t1", RunInputs) \/ Abort

SpecRun == Init /\ [][NextRun]_vars

\* ------------------------------------------------- StopBuffer on its own

\* The stop lists and fragments a StopBuffer is driven with: no stops, an
\* empty stop string alone and beside others, stops that are suffixes of one
\* another, and fragments of up to three characters.
SbStopSets ==
  { <<>>, << <<>> >>, << <<"b">>, <<"a", "b">> >>, << <<"a", "b">>, <<"b">> >>,
    << <<>>, <<"a", "b">> >>, << <<"a", "b", "a">> >>,
    << <<"a", "a">>, <<"b", "a", "b">> >> }
SbPieces ==
  { <<>>, <<"a">>, <<"b">>, <<"a", "b">>, <<"b", "a">>, <<"a", "b", "a">> }

InitStop ==
  /\ SessionInit
  /\ sb \in { [SbIdle EXCEPT !.stops = s] : s \in SbStopSets }

\* One call of StopBuffer::push.  raw is everything pushed so far, out
\* everything returned so far, kept is raw without the stop strings reported
\* as matched.
SbPush ==
  /\ ~sb.flushed
  /\ sb.pushes < MaxPush
  /\ \E piece \in SbPieces :
       LET r == Push(sb.pending, sb.stops, piece)
           k == sb.kept \o piece
       IN sb' = [sb EXCEPT
                   !.pending = r.pending,
                   !.raw = @ \o piece,
                   !.kept = IF r.hit
                            THEN SubSeq(k, 1, Len(k) - Len(r.matched))
                            ELSE k,
                   !.out = @ \o r.emit,
                   !.pushes = @ + 1,
                   !.hits = @ + (IF r.hit THEN 1 ELSE 0),
                   !.hit = r.hit,
                   !.matched = r.matched,
                   !.lastEmit = r.emit]
  /\ UNCHANGED <<mutex, sessVars, should_abort, rtVars, pc, op, lock,
                 genLocals, ret, sink, openStreams, histVars, sinceRun,
                 backendVars, probe>>

\* The call of StopBuffer::flush that ends the stream.
SbFlush ==
  /\ ~sb.flushed
  /\ LET f == Flush(sb.pending)
     IN sb' = [sb EXCEPT !.pending = f.pending, !.out = @ \o f.emit,
                         !.flushed = TRUE, !.lastEmit = f.emit]
  /\ UNCHANGED <<mutex, sessVars, should_abort, rtVars, pc, op, lock,
                 genLocals, ret, sink, openStreams, histVars, sinceRun,
                 backendVars, probe>>

NextStop == SbPush \/ SbFlush

SpecStop == InitStop /\ [][NextStop]_vars

\* ------------------------------------------------------------ properties

\* text contains sub as a substring
Contains(text, sub) ==
  \E k \in 0..(Len(text) - Len(sub)) : SubSeq(text, k + 1, k + Len(sub)) = sub

\* C7: the text returned by the pushes and the flush of a StopBuffer,
\* concatenated, is the text pushed when no push reported a hit, and the text
\* pushed without the matched stop string at its end when a push reported the
\* first hit, the buffer being empty after that push; throughout, what was
\* returned followed by what is buffered is what was pushed without the
\* matched stop strings, so no byte is returned twice and none but a trimmed
\* match is lost.
C7_StopBufferConserves ==
  /\ sb.out \o sb.pending = sb.kept
  /\ sb.hits = 0 => sb.out \o sb.pending = sb.raw
  /\ sb.flushed => sb.pending = <<>>
  /\ sb.flushed /\ sb.hits = 0 => sb.out = sb.raw
  /\ sb.hit /\ sb.hits = 1 =>
       /\ sb.matched # <<>>
       /\ \E k \in 1..Len(sb.stops) : sb.stops[k] = sb.matched
       /\ sb.pending = <<>>
       /\ sb.out \o sb.matched = sb.raw

\* C7 witness: a stream that held text back over two pushes, hit a stop on the
\* third and was flushed.
C7_Witness ==
  /\ sb.flushed /\ sb.hit /\ sb.hits = 1 /\ sb.pushes = 3
  /\ sb.matched = <<"a", "b", "a">>
  /\ sb.out # <<>>
  /\ sb.lastEmit = <<>>

\* The calls one sink received form a complete stream: text chunks that are
\* non-empty and not marked done, then one terminal call ("", true), last.
WellFormedStream(log) ==
  /\ Len(log) >= 1
  /\ log[Len(log)] = [text |-> <<>>, done |-> TRUE]
  /\ \A k \in 1..(Len(log) - 1) : log[k].text # <<>> /\ ~log[k].done

\* C1: once a generateStream call whose callback has onToken has returned, its
\* sink has received exactly one terminal call ("", true), as its last call,
\* and every earlier call carried non-empty text with isDone = false.
C1_ExactlyOneTerminalCall ==
  \A t \in Threads :
    pc[t] = "idle" /\ stream[t] = "cb" => WellFormedStream(sink[t])

\* C2: a sink receives a call only while its run is the earliest run, in the
\* order the runs took the lock, whose terminal call is still to come: no
\* call of a later run precedes the terminal call of an earlier one.
C2_NoCallBeforeEarlierTerminal ==
  [][\A u \in Threads :
       Len(sink'[u]) > Len(sink[u]) =>
         openStreams # <<>> /\ Head(openStreams) = u]_vars

\* The threads whose call is inside its locked section.
LockHolders == {t \in Threads : lock[t]}

\* C3: at most one thread is inside the locked section of a session
\* operation, that thread owns the mutex, and the session's handles,
\* configuration, last-run metrics, stop reason and matched stop text change
\* only in a step taken by the thread that holds the lock.
C3_LockedSectionsExclusive ==
  [][/\ Cardinality(LockHolders') <= 1
     /\ \A t \in Threads : lock'[t] => mutex' = t
     /\ sessVars' # sessVars =>
          \E t \in Threads : lock[t] /\ mutex = t /\ pc'[t] # pc[t]]_vars

\* C3 witness: one thread is in the decode loop of a run on a loaded model
\* while the other waits for the lock with a loadModel call.
C3_Witness ==
  \E t \in Threads, u \in Threads :
    /\ t # u
    /\ lock[t] /\ mutex = t /\ pc[t] = "body" /\ model # NullHandle
    /\ pc[u] = "wait" /\ op[u] = "loadModel" /\ ~lock[u]

\* C4: a loadModel call that returns false leaves the session's handles,
\* configuration, metrics, stop reason and stop text as they were before the
\* call.
C4_FailedLoadKeepsSession ==
  [][\A t \in Threads :
       op'[t] = "loadModel" /\ pc[t] # "out" /\ pc'[t] = "out"
         /\ ret'[t] = RetBool(FALSE)
       => sessVars' = sessVars]_vars

\* The program counters of a run between its clear of the abort flag and its
\* return, the run holding the lock throughout.
RunPcs == {"prefill", "loop", "body", "post", "ret"}

\* C5: once abort() has set the flag during a run, the flag stays set while
\* the run holds the lock, the run counts at most one more token (an iteration
\* under way when the flag was set is the last one the run is in), and a run
\* stopped by the loop's check ends with reason error and truncated = true.
C5_AbortStopsWithinOneIteration ==
  \A t \in Threads :
    pc[t] \in RunPcs /\ abortAt[t] # -1 =>
      /\ should_abort
      /\ summary[t].metrics.generation_tokens <= abortAt[t] + 1
      /\ pc[t] = "body" => summary[t].metrics.generation_tokens = abortAt[t]
      /\ pc[t] \in {"post", "ret"} /\ path[t] = "cancel" =>
           /\ summary[t].reason = "error"
           /\ summary[t].metrics.truncated
           /\ ~ok[t]

\* C5 witness: abort() arrived during the first iteration, that iteration
\* counted its token, and the next check stopped the run.
C5_Witness ==
  \E t \in Threads :
    /\ pc[t] = "ret" /\ path[t] = "cancel" /\ abortAt[t] = 0
    /\ summary[t].metrics.generation_tokens = 1
    /\ summary[t].reason = "error" /\ summary[t].metrics.truncated

\* C6: the flag is false right after unload and right after a run's clear at
\* its start; while a run is between that clear and the end of its loop the
\* flag is set only if abort() was called after the clear, and only such a
\* run is stopped by the loop's check.
C6_StaleAbortNeverStopsRun ==
  [][\A t \in Threads :
       /\ op[t] = "unload" /\ pc[t] = "in" /\ pc'[t] = "out" => ~should_abort'
       /\ pc[t] = "in" /\ pc'[t] = "prefill" => ~should_abort'
       /\ pc'[t] \in {"prefill", "loop", "body"} /\ abortAt'[t] = -1
            => ~should_abort'
       /\ path'[t] = "cancel" => abortAt'[t] # -1]_vars

\* C6 witness: a run whose clear overwrote a set flag ran to its token budget
\* and succeeded.
C6_Witness ==
  \E t \in Threads :
    /\ pc[t] = "ret" /\ cleared[t] /\ abortAt[t] = -1
    /\ path[t] = "max" /\ summary[t].reason = "max_tokens" /\ ok[t]

\* The text of the calls of a sink, concatenated.
RECURSIVE ConcatTexts(_)
ConcatTexts(log) ==
  IF log = <<>> THEN <<>> ELSE Head(log).text \o ConcatTexts(Tail(log))

\* What the caller of run t was given: the chunks of the stream, or the text
\* accumulated for generate.
Delivered(t) ==
  IF HasStream(t) THEN ConcatTexts(sink[t])
  ELSE IF HasOutText(t) THEN out_text[t]
  ELSE <<>>

\* C8: the text delivered by a run contains no configured non-empty stop
\* string, and a run that did not fail and whose sampled fragments contain one
\* ended with reason stop_sequence.
C8_NoStopStringDelivered ==
  \A t \in Threads :
    pc[t] = "ret" =>
      \A k \in 1..Len(req[t].stops) :
        req[t].stops[k] # <<>> =>
          /\ ~Contains(Delivered(t), req[t].stops[k])
          /\ Contains(generated[t], req[t].stops[k])
               /\ summary[t].reason # "error"
             => summary[t].reason = "stop_sequence"

\* C9 as stated: a run never counts more tokens than the maxTokens the caller
\* passed, and a run that exhausts its budget commits max_tokens, truncated
\* and exactly that many tokens.
C9_CountIsRequestedMaxTokens ==
  \A t \in Threads :
    pc[t] \in RunPcs =>
      /\ summary[t].metrics.generation_tokens <= req[t].maxTokens
      /\ pc[t] = "ret" /\ path[t] = "max" =>
           /\ summary[t].reason = "max_tokens"
           /\ summary[t].metrics.truncated
           /\ summary[t].metrics.generation_tokens = req[t].maxTokens

\* C9 amended: a run never counts more than max(1, maxTokens) tokens, and a
\* run that exhausts its budget commits max_tokens, truncated and exactly
\* max(1, maxTokens) tokens.
C9_CountIsClampedMaxTokens ==
  \A t \in Threads :
    pc[t] \in RunPcs =>
      /\ summary[t].metrics.generation_tokens <= Max(1, req[t].maxTokens)
      /\ pc[t] = "ret" /\ path[t] = "max" =>
           /\ summary[t].reason = "max_tokens"
           /\ summary[t].metrics.truncated
           /\ summary[t].metrics.generation_tokens = Max(1, req[t].maxTokens)

\* C9 witness: a call with maxTokens = 0 ran out of budget after one token.
C9_Witness ==
  \E t \in Threads :
    /\ pc[t] = "ret" /\ path[t] = "max" /\ req[t].maxTokens = 0
    /\ summary[t].metrics.generation_tokens = 1
    /\ summary[t].reason = "max_tokens"

\* C10: a run about to return commits a reason among eos, stop_sequence,
\* max_tokens and error and returns success exactly when the reason is not
\* error; the session's reason is none only if no run has committed since the
\* last load, unload, stateClear or successful restore.
C10_ReasonIsTerminal ==
  /\ \A t \in Threads :
       pc[t] = "ret" =>
         /\ summary[t].reason \in TerminalReasons
         /\ ok[t] <=> summary[t].reason # "error"
         /\ summary[t].success <=> ok[t]
  /\ sinceRun => stop_reason \in TerminalReasons
  /\ stop_reason \in TerminalReasons \cup {"none"}

\* C10 witness: a run that hit its budget is about to commit max_tokens after
\* an earlier run committed a reason.
C10_Witness ==
  \E t \in Threads :
    /\ pc[t] = "ret" /\ summary[t].reason = "max_tokens" /\ ok[t]
    /\ sinceRun /\ stop_reason = "error"

\* The session's last-run state.
LastRun == <<metrics, stop_reason, stop_sequence>>

RestoreReturns(t) ==
  /\ op'[t] \in {"stateRestore", "stateRestoreFrom"}
  /\ pc[t] # "out" /\ pc'[t] = "out"

\* C12: a stateRestore or stateRestoreFrom call that returns failure leaves
\* the context's working memory, the last-run metrics, stop reason and stop
\* text, the handles and the cancellation flag as they were.
C12_FailedRestoreKeepsSession ==
  [][\A t \in Threads :
       RestoreReturns(t) /\ ret'[t] = RetBool(FALSE) =>
         /\ kv' = kv
         /\ sessVars' = sessVars
         /\ should_abort' = should_abort]_vars

\* C13: a restore returns success exactly when the runtime consumed the
\* bytes (a successful one has installed them in the live context, a failed
\* one has installed nothing); after a successful restore the last-run state
\* is the post-load default; a failed restore leaves the last-run state as it
\* was.
C13_RestoreResetsOnSuccessOnly ==
  [][\A t \in Threads :
       RestoreReturns(t) =>
         /\ ret'[t] = RetBool(TRUE) =>
              /\ pc[t] = "in" /\ ctx # NullHandle /\ kv' = "restored"
              /\ metrics' = DefaultMetrics
              /\ stop_reason' = "none"
              /\ stop_sequence' = <<>>
         /\ ret'[t] = RetBool(FALSE) =>
              /\ kv # "restored" => kv' # "restored"
              /\ LastRun' = LastRun]_vars

\* C13 witness: a restore has succeeded after the other thread's run
\* committed its summary (that call has not yet returned), and the last-run
\* state is the default.
C13_Witness ==
  \E t \in Threads, u \in Threads :
    /\ pc[u] = "guard" /\ ok[u]
    /\ pc[t] = "out" /\ op[t] \in {"stateRestore", "stateRestoreFrom"}
    /\ ret[t] = RetBool(TRUE) /\ kv = "restored"
    /\ LastRun = <<DefaultMetrics, "none", <<>> >>

\* C14: a run that finds a live model and context clears the working memory,
\* data included, in the step that starts it, and the memory is still empty
\* when the prefill decode begins, whatever it held before.
C14_PrefillStartsFromEmptyMemory ==
  [][\A t \in Threads :
       /\ op[t] \in GenOps /\ pc[t] = "in" /\ pc'[t] = "prefill"
            => kv' = "zeroed"
       /\ pc'[t] = "prefill" => kv' = "zeroed"]_vars

\* C14 witness: a run is about to prefill on empty memory after it found the
\* state a successful restore had installed.
C14_Witness ==
  \E t \in Threads :
    pc[t] = "prefill" /\ memBefore[t] = "restored" /\ kv = "zeroed"

\* C15: whenever the session lock is free, the context handle is non-null
\* exactly when the model handle is non-null.
C15_HandlesNullTogether ==
  mutex = NoThread => (ctx # NullHandle <=> model # NullHandle)

\* C15 witness: the lock is free and both handles are null again after a
\* model had been loaded (an unload, or a later load that failed, released
\* them), with no call in progress.
C15_Witness ==
  /\ mutex = NoThread
  /\ model = NullHandle /\ ctx = NullHandle
  /\ cfg # DefaultConfig
  /\ \A t \in Threads : pc[t] = "idle"

\* C16: in every summary and in the session's last-run state the matched stop
\* text is non-empty exactly when the reason is stop_sequence, and a
\* stop_sequence outcome records one of the run's configured non-empty stop
\* strings.
C16_StopTextIffStopSequence ==
  /\ \A t \in Threads :
       /\ summary[t].stop_sequence # <<>>
            <=> summary[t].reason = "stop_sequence"
       /\ summary[t].reason = "stop_sequence" =>
            \E k \in 1..Len(req[t].stops) :
              /\ req[t].stops[k] # <<>>
              /\ req[t].stops[k] = summary[t].stop_sequence
  /\ stop_sequence # <<>> <=> stop_reason = "stop_sequence"

\* C16 witness: the token that completed a stop string failed to decode; the
\* run is about to commit reason error with an empty stop text.
C16_Witness ==
  \E t \in Threads :
    /\ pc[t] = "ret" /\ path[t] = "decodefail"
    /\ FirstStop(generated[t], req[t].stops) # 0
    /\ summary[t].reason = "error" /\ summary[t].stop_sequence = <<>>

\* Some configured non-empty stop string is a suffix of text.
EndsWithStop(text, stops) ==
  \E k \in 1..Len(stops) : stops[k] # <<>> /\ EndsWith(text, stops[k])

\* C17: as long as no push has reported a hit, the whole text pushed so far
\* does not end with a configured non-empty stop string: the push after which
\* it does is the one that reports the hit, however the text was split into
\* fragments.
C17_SplitStopDetected ==
  /\ sb.hits = 0 => ~EndsWithStop(sb.raw, sb.stops)
  /\ sb.hits = 1 /\ sb.hit => EndsWith(sb.raw, sb.matched)

\* C17 witness: a stop string of three characters arrived in three fragments,
\* the first two pushes released nothing, and the third reported the hit.
C17_Witness ==
  /\ sb.stops = << <<"a", "b", "a">> >>
  /\ sb.raw = <<"a", "b", "a">> /\ sb.pushes = 3
  /\ sb.hit /\ sb.hits = 1 /\ sb.out = <<>> /\ ~sb.flushed

\* C18: after a push that reports no hit the buffer holds at most L - 1
\* characters, L the longest stop string's length; with L = 0 it is empty
\* after every push; after a hit and after a flush it is empty.
C18_BufferHoldsLessThanLongestStop ==
  /\ Len(sb.pending) <= Max(MaxStop(sb.stops) - 1, 0)
  /\ MaxStop(sb.stops) = 0 => sb.pending = <<>>
  /\ sb.hit => sb.pending = <<>>
  /\ sb.flushed => sb.pending = <<>>

\* C18 witness: a push without a hit released text and kept L - 1 = 2
\* characters.
C18_Witness ==
  /\ MaxStop(sb.stops) = 3
  /\ sb.pushes > 0 /\ ~sb.hit /\ ~sb.flushed
  /\ Len(sb.pending) = 2 /\ sb.lastEmit # <<>>

\* An embed call of thread t has reached its return statement with the
\* temporary context created.
EmbedDone(t) == pc[t] = "out" /\ op[t] = "embed" /\ ret[t].made

\* C19 as stated: with the temporary context created, embed returns one entry
\* per text in order, an entry being empty exactly when its text failed to
\* tokenize, had no tokens or failed to encode.
C19_EmptyExactlyOnTextFailure ==
  \A t \in Threads :
    EmbedDone(t) =>
      /\ Len(ret[t].entries) = ret[t].texts
      /\ \A k \in 1..Len(ret[t].entries) :
           ret[t].entries[k] = "empty"
             <=> ret[t].how[k] \in {"tokfail", "notokens", "encfail"}

\* C19 amended: with the temporary context created, embed returns one entry
\* per text in order; an entry is empty exactly when its text failed to
\* tokenize, had no tokens, failed to encode, or the runtime had no embedding
\* for it; the temporary context is released before the return and the
\* session's handles, configuration, memory, metrics and stop state are
\* unchanged by the call.
C19_OneEntryPerText ==
  [][\A t \in Threads :
       op[t] = "embed" /\ pc[t] = "in" /\ pc'[t] = "out" =>
         /\ sessVars' = sessVars /\ kv' = kv /\ should_abort' = should_abort
         /\ live' = live
         /\ ret'[t].made =>
              /\ Len(ret'[t].entries) = ret'[t].texts
              /\ \A k \in 1..ret'[t].texts :
                   ret'[t].entries[k] = "empty"
                     <=> ret'[t].how[k] \in {"tokfail", "notokens", "encfail",
                                             "noemb"}]_vars

\* C19 witness: of two texts the first failed to tokenize and the second was
\* embedded; the result has an empty first and a non-empty second entry.
C19_Witness ==
  \E t \in Threads :
    /\ EmbedDone(t)
    /\ ret[t].texts = 2
    /\ ret[t].how = <<"tokfail", "ok">>
    /\ ret[t].entries = <<"empty", "vec">>

\* C20: llama_backend_init is called at most once in the life of the process.
C20_BackendInitAtMostOnce == backend_inits <= 1

\* C21: abort() can be taken in every state, whoever holds the session lock,
\* it completes in one step of its own (no thread of the engine moves), it
\* leaves the flag set, and it changes nothing else of the session: the
\* mutex and its holders, the handles, the configuration, the metrics, the
\* stop reason and stop text, the working memory and every call's locals and
\* sink are as before.
C21_AbortNeverWaitsForLock ==
  /\ [](ENABLED Abort)
  /\ [][pc' = pc =>
         /\ should_abort'
         /\ UNCHANGED <<mutex, lock, sessVars, rtVars, op, genLocals, ret,
                        sink, backendVars, probe>>]_vars

\* C21 witness: abort() was called while a generation was in its decode loop,
\* holding the lock, and the flag is set.
C21_Witness ==
  \E t \in Threads :
    /\ pc[t] = "body" /\ lock[t] /\ mutex = t /\ op[t] \in GenOps
    /\ abortAt[t] # -1 /\ should_abort

TrimEnd(text, stop) == SubSeq(text, 1, Len(text) - Len(stop))

\* C23: when a generate call's run has settled its reason, the string the
\* call will return is empty if the reason is error, whatever text the run
\* had accumulated; otherwise it is what the stop matcher released in the
\* loop followed by the flushed tail, which is the text of the counted
\* tokens, without the matched stop string at its end when the run ended on
\* one.
C23_GenerateReturnsTextOrEmpty ==
  \A t \in Threads :
    pc[t] = "ret" /\ op[t] = "generate" =>
      /\ summary[t].reason = "error" => GenerateResult(t) = <<>>
      /\ summary[t].reason # "error" =>
           /\ GenerateResult(t) = out_text[t]
           /\ stop_buffer[t] = <<>>
           /\ EndsWith(generated[t], summary[t].stop_sequence)
           /\ GenerateResult(t) =
                TrimEnd(generated[t], summary[t].stop_sequence)

\* C23 witness: a generate run had accumulated text when a decode failure
\* ended it with reason error.
C23_Witness ==
  \E t \in Threads :
    /\ pc[t] = "ret" /\ op[t] = "generate" /\ path[t] = "decodefail"
    /\ summary[t].reason = "error" /\ out_text[t] # <<>>
    /\ GenerateResult(t) = <<>>

\* C23 witness of the other case: a generate run with stop strings ended on
\* its budget and returns text that includes a flushed tail.
C23_WitnessTail ==
  \E t \in Threads :
    /\ pc[t] = "ret" /\ op[t] = "generate" /\ path[t] = "max"
    /\ req[t].stops # <<>> /\ GenerateResult(t) = <<"b", "a">>

\* C24: every call a run makes to its streaming sink, text chunk or terminal
\* call, is made in a step in which the run's thread holds the session lock.
C24_SinkCalledUnderLock ==
  [][\A t \in Threads :
       Len(sink'[t]) > Len(sink[t]) => lock[t] /\ mutex = t]_vars

\* The configured stop strings, by index, that are non-empty and a suffix of
\* text.
SuffixStops(text, stops) ==
  {k \in 1..Len(stops) : stops[k] # <<>> /\ EndsWith(text, stops[k])}

\* C25: a push reports a hit exactly when some non-empty configured stop
\* string is a suffix of the buffer with the pushed text appended; the string
\* reported is then the one of lowest index among them, whatever their
\* lengths, what is returned is that buffer with exactly this string removed
\* from its end, and nothing stays buffered.
C25_FirstConfiguredStopWins ==
  [][sb'.pushes = sb.pushes + 1 =>
       LET piece == SubSeq(sb'.raw, Len(sb.raw) + 1, Len(sb'.raw))
           buf == sb.pending \o piece
           c == SuffixStops(buf, sb.stops)
       IN /\ sb'.hit <=> c # {}
          /\ sb'.hit =>
               \E k \in c :
                 /\ \A j \in c : k <= j
                 /\ sb'.matched = sb.stops[k]
                 /\ sb'.lastEmit = TrimEnd(buf, sb.stops[k])
                 /\ sb'.pending = <<>>
          /\ ~sb'.hit => sb'.matched = <<>>]_vars

\* C25 witness: with the stops "b", "ab" the buffer became "ab" over two
\* pushes; the match reported is "b" and "a" was returned.
C25_Witness ==
  /\ sb.stops = << <<"b">>, <<"a", "b">> >>
  /\ sb.pushes = 2 /\ sb.raw = <<"a", "b">>
  /\ sb.hit /\ sb.matched = <<"b">> /\ sb.lastEmit = <<"a">>

\* What the caller of run t has been given when the sink's log is log and
\* the text accumulated for generate is text.
DeliveredOf(t, log, text) ==
  IF HasStream(t) THEN ConcatTexts(log)
  ELSE IF HasOutText(t) THEN text
  ELSE <<>>

\* The ways a loop ends with reason error.
LoopErrors == {"cancel", "decodefail", "sinkfail"}

\* C26 as stated: in the step after the decode loop of a run that has a sink
\* or an output buffer, the text the stop matcher still holds is delivered
\* exactly when the reason at that point is not error; a run that ends with
\* eos or max_tokens has delivered the fragments of all its counted tokens
\* and nothing else; a run that ends with error has not been given the
\* held-back text.
C26_TailDeliveredIffNotError ==
  [][\A t \in Threads :
       pc[t] = "post" /\ pc'[t] = "ret" /\ (HasStream(t) \/ HasOutText(t)) =>
         LET tail == stop_buffer[t]
             before == DeliveredOf(t, sink[t], out_text[t])
             after == DeliveredOf(t, sink'[t], out_text'[t])
         IN /\ after = (IF path[t] \in LoopErrors THEN before
                        ELSE before \o tail)
            /\ summary'[t].reason \in {"eos", "max_tokens"} =>
                 after = generated[t]
            /\ summary'[t].reason = "error" => after = before]_vars

\* C26 amended: the held-back text is handed to the sink only when the
\* reason after the loop is not error, and then it is delivered unless that
\* delivery fails; a run that ends with eos or max_tokens has delivered the
\* fragments of all its counted tokens and nothing else; a run whose loop
\* ended with error is never given the held-back text; a run that ends with
\* error although its loop did not is one whose delivery of a non-empty tail
\* to a streaming sink failed, and its sink has received either nothing more
\* or that tail.
C26_TailDeliveredUnlessLoopError ==
  [][\A t \in Threads :
       pc[t] = "post" /\ pc'[t] = "ret" /\ (HasStream(t) \/ HasOutText(t)) =>
         LET tail == stop_buffer[t]
             before == DeliveredOf(t, sink[t], out_text[t])
             after == DeliveredOf(t, sink'[t], out_text'[t])
         IN /\ path[t] \in LoopErrors =>
                 after = before /\ summary'[t].reason = "error"
            /\ path[t] \notin LoopErrors /\ summary'[t].reason # "error" =>
                 after = before \o tail
            /\ summary'[t].reason \in {"eos", "max_tokens"} =>
                 after = generated[t]
            /\ path[t] \notin LoopErrors /\ summary'[t].reason = "error" =>
                 /\ path'[t] = "tailfail" /\ tail # <<>> /\ HasStream(t)
                 /\ after \in {before, before \o tail}]_vars

\* C26 witness: a streamed run ended its loop on its budget with text held
\* back; the callback threw on that text, so the run ended with error and
\* the sink holds the tail.
C26_Witness ==
  \E t \in Threads :
    /\ pc[t] = "ret" /\ path[t] = "tailfail" /\ HasStream(t)
    /\ summary[t].reason = "error"
    /\ generated[t] # <<>> /\ ConcatTexts(sink[t]) = generated[t]

\* The handles the session and the calls in progress hold: the session's
\* model and context, each run's sampler chain, each detectModel call's model.
\* (embed creates and releases its context within its locked step.)
HeldHandles ==
  ({model, ctx} \cup {sampler[t] : t \in Threads}
     \cup {probe[t] : t \in Threads}) \ {NullHandle}

\* The number of holders of handle h.
Holders(h) ==
  (IF model = h THEN 1 ELSE 0) + (IF ctx = h THEN 1 ELSE 0)
    + Cardinality({t \in Threads : sampler[t] = h})
    + Cardinality({t \in Threads : probe[t] = h})

\* C27: the handles created and not yet released are exactly those held by
\* the session or by a call in progress, each by one holder, so none has
\* leaked and none that is held has been released (a release of a held
\* handle is its first, and nothing uses a released handle); a sampler
\* chain belongs to a run inside its locked section and that run's model and
\* context are live throughout, a detectModel model to a call that has not
\* returned; and a handle is released only in a step of the thread that holds
\* the session lock, or by the detectModel call that owns it.
C27_HandlesOwnedAndReleasedOnce ==
  /\ [](/\ live = HeldHandles
        /\ \A h \in live : Holders(h) = 1
        /\ \A t \in Threads :
             /\ sampler[t] # NullHandle =>
                  lock[t] /\ mutex = t /\ pc[t] \in {"loop", "body", "post"}
             /\ pc[t] \in {"prefill", "loop", "body", "post"} =>
                  {model, ctx} \subseteq live
             /\ probe[t] # NullHandle =>
                  pc[t] = "detect2" /\ op[t] = "detectModel")
  /\ [][\A h \in live \ live' :
         \E t \in Threads :
           /\ pc'[t] # pc[t]
           /\ (lock[t] /\ mutex = t) \/ probe[t] = h]_vars

\* C27 witness: a run holds its sampler chain on the loaded model while a
\* detectModel call on the other thread holds a model of its own.
C27_Witness ==
  \E t \in Threads, u \in Threads :
    /\ pc[t] = "body" /\ sampler[t] # NullHandle
    /\ pc[u] = "detect2" /\ probe[u] # NullHandle
    /\ Cardinality(live) = 4

\* The terminal call of a stream.
DoneCall == [text |-> <<>>, done |-> TRUE]

\* C28: once the delivery of a text chunk of a streamed run has failed, the
\* iteration in which it failed neither counts nor decodes its token, no
\* step of the run up to its return from the locked section adds a call to
\* the sink (the held-back tail is not delivered), the reason the run commits
\* is error, and the step that ends the call adds the terminal call and
\* nothing else.
C28_NoChunkAfterFailedDelivery ==
  [][\A t \in Threads :
       HasStream(t) =>
         /\ pc[t] = "body" /\ path'[t] = "sinkfail" =>
              /\ summary'[t].metrics = summary[t].metrics
              /\ kv' = kv /\ iter'[t] = iter[t]
              /\ pc'[t] = "post"
         /\ path[t] \in {"sinkfail", "tailfail"} =>
              /\ sink'[t] = sink[t]
              /\ pc[t] = "post" /\ pc'[t] = "ret" =>
                   summary'[t].reason = "error" /\ ~ok'[t]
              /\ pc[t] = "ret" /\ pc'[t] = "guard" =>
                   stop_reason' = "error" /\ done_guard'[t]
         /\ path[t] = "chunkfail" /\ pc'[t] # pc[t] =>
              sink'[t] = Append(sink[t], DoneCall)]_vars

====
